---- MODULE Spec2Model ----
(***************************************************************************)
(* Zeus Forecast Dashboard (src/streamlit_app.py).                         *)
(*                                                                         *)
(* The script is run top to bottom on every interaction.  One script run   *)
(* is modelled as a walk of pc through the API-key guard and the five      *)
(* `with tabN:` blocks; the HTTP responses are the inputs of the blocks.   *)
(*                                                                         *)
(* Number representation.  Python floats are modelled in decimal fixed     *)
(* point: temperatures, precipitation and speeds are integers counting     *)
(* thousandths (273.15 K is 273150, 0.001 m is 1), angles are integers     *)
(* counting hundredths of a degree (22.5 deg is 2250).  A Python value     *)
(* that may be None is a sequence of length at most one: None is << >>     *)
(* and the value x is <<x>>.  A Python dict is a function whose DOMAIN is  *)
(* the set of its keys; the empty dict is << >>.                           *)
(***************************************************************************)
EXTENDS Integers, Sequences, FiniteSets, TLC

VARIABLES
    api_key,   \* value of the sidebar text input (line 65)
    shown,     \* forecast tabs the browser has displayed so far
    pc,        \* position of the script run
    sent,      \* HTTP exchanges of the current run, in order
    page,      \* elements rendered by the current run, in order
    runs,      \* number of script runs started
    call,      \* unit harness: the arguments of a conversion call
    ret        \* unit harness: << >> before the call, <<result>> after

vars == <<api_key, shown, pc, sent, page, runs, call, ret>>
appVars == <<api_key, shown, pc, sent, page, runs>>
unitVars == <<call, ret>>

\* ------------------------------------------------------------------ bounds
MaxLen == 1     \* longest time / value series in a response
MaxRuns == 2    \* script runs per session
MaxWind == 4    \* largest |u|, |v| in m/s fed to wind_speed_direction

\* ------------------------------------------------------- Python primitives
None == << >>
Some(x) == <<x>>
IsNone(x) == x = << >>
Val(x) == x[1]

\* dict.get(key, default)
Get(d, key, default) == IF key \in DOMAIN d THEN d[key] ELSE default

\* truth value of a dict: non-empty
TruthyDict(d) == DOMAIN d # {}

Abs(n) == IF n < 0 THEN -n ELSE n
Min(a, b) == IF a < b THEN a ELSE b

\* ------------------------------------------------------------ conversions
Kelvin0C == 273150          \* 273.15 K in thousandths (line 134)
MToMm == 1000               \* metres to millimetres (line 157)
KnotsPerMs == 194384        \* 1.94384, scaled by KnotsScale (line 34)
KnotsScale == 100000
HalfTurn == 18000           \* 180 degrees (line 35)
FullTurn == 36000           \* 360 degrees (line 35)
Sector == 2250              \* 22.5 degrees (line 41)
NumDirs == 16               \* compass points (line 41)

\* temps_c = [t - 273.15 if t is not None else None for t in temps_raw]
RECURSIVE temps_c_NullAsZero(_)
temps_c_NullAsZero(temps_raw) ==
    IF temps_raw = << >> THEN << >>
    ELSE <<Some((IF IsNone(Head(temps_raw)) THEN 0 ELSE Val(Head(temps_raw))) - Kelvin0C)>>
         \o temps_c_NullAsZero(Tail(temps_raw))

RECURSIVE temps_c(_)
temps_c(temps_raw) ==
    IF temps_raw = << >> THEN << >>
    ELSE <<IF IsNone(Head(temps_raw)) THEN None ELSE Some(Val(Head(temps_raw)) - Kelvin0C)>>
         \o temps_c(Tail(temps_raw))

\* vals_mm = [v * 1000 if v is not None else None for v in vals_raw]
RECURSIVE vals_mm(_)
vals_mm(vals_raw) ==
    IF vals_raw = << >> THEN << >>
    ELSE <<IF IsNone(Head(vals_raw)) THEN None ELSE Some(Val(Head(vals_raw)) * MToMm)>>
         \o vals_mm(Tail(vals_raw))

\* math.sqrt on thousandths: the largest s with s*s <= n, found by bisection
RECURSIVE SqrtBetween(_, _, _)
SqrtBetween(n, lo, hi) ==
    IF hi - lo <= 1 THEN lo
    ELSE LET mid == (lo + hi) \div 2
         IN  IF mid * mid <= n THEN SqrtBetween(n, mid, hi) ELSE SqrtBetween(n, lo, mid)

Sqrt(n) == SqrtBetween(n, 0, 46341)

\* atan(2^-i) for i = 0..19, in millionths of a degree
AtanTable ==
    <<45000000, 26565051, 14036243, 7125016, 3576334, 1789911, 895174, 447614,
      223811, 111906, 55953, 27976, 13988, 6994, 3497, 1749, 874, 437, 219, 109>>

\* Angle of the vector (x, y), x > 0, in millionths of a degree: the vector is
\* rotated onto the x axis by the angles of AtanTable (CORDIC vectoring);
\* p is 2^(i-1).
RECURSIVE Cordic(_, _, _, _, _)
Cordic(x, y, acc, i, p) ==
    IF i > Len(AtanTable) THEN acc
    ELSE IF y >= 0
         THEN Cordic(x + (y \div p), y - (x \div p), acc + AtanTable[i], i + 1, 2 * p)
         ELSE Cordic(x - (y \div p), y + (x \div p), acc - AtanTable[i], i + 1, 2 * p)

\* round a count of millionths of a degree to hundredths of a degree
MicroToCenti(a) == IF a >= 0 THEN (a + 5000) \div 10000 ELSE -((-a + 5000) \div 10000)

\* math.degrees(math.atan2(y, x)) in hundredths of a degree, in -18000..18000.
\* The axis cases are exact, as in libm; arguments are thousandths.
Atan2Deg(y, x) ==
    IF y = 0 THEN (IF x >= 0 THEN 0 ELSE HalfTurn)
    ELSE IF x = 0 THEN (IF y > 0 THEN HalfTurn \div 2 ELSE -(HalfTurn \div 2))
    ELSE LET a == MicroToCenti(Cordic(Abs(x) * 256, Abs(y) * 256, 0, 1, 1))
         IN  IF x > 0 THEN (IF y > 0 THEN a ELSE -a)
             ELSE (IF y > 0 THEN HalfTurn - a ELSE a - HalfTurn)

\* wind_speed_direction(u, v): (speed_knots, direction_deg)
wind_speed_direction_NoFlip(u, v) ==
    LET speed_ms == Sqrt(u * u + v * v)
        speed_knots == (speed_ms * KnotsPerMs) \div KnotsScale
        direction_deg == Atan2Deg(u, v) % FullTurn
    IN  <<speed_knots, direction_deg>>

wind_speed_direction_NoKnots(u, v) ==
    LET speed_ms == Sqrt(u * u + v * v)
        direction_deg == (Atan2Deg(u, v) + HalfTurn) % FullTurn
    IN  <<speed_ms, direction_deg>>

wind_speed_direction(u, v) ==
    LET speed_ms == Sqrt(u * u + v * v)
        speed_knots == (speed_ms * KnotsPerMs) \div KnotsScale
        direction_deg == (Atan2Deg(u, v) + HalfTurn) % FullTurn
    IN  <<speed_knots, direction_deg>>

dirs ==
    <<"N", "NNE", "NE", "ENE", "E", "ESE", "SE", "SSE",
      "S", "SSW", "SW", "WSW", "W", "WNW", "NW", "NNW">>

\* Python 3 round(n / d): to the nearest integer, a tie to the even one
Round(n, d) ==
    LET q == n \div d
        r == n % d
    IN  IF 2 * r < d THEN q
        ELSE IF 2 * r > d THEN q + 1
        ELSE IF q % 2 = 0 THEN q ELSE q + 1

\* ix = round(deg / 22.5) % 16
compass_ix_Floor(deg) == (deg \div Sector) % NumDirs

compass_ix(deg) == Round(deg, Sector) % NumDirs

\* deg_to_compass(deg); dirs is 1-based here
deg_to_compass(deg) == dirs[compass_ix(deg) + 1]

\* ------------------------------------------------------------- unit harness
\* The conversion functions are pure; each is exercised on arguments drawn in
\* the initial state, one call per behaviour.  The dashboard does not run.
AppIdle ==
    /\ api_key = ""
    /\ shown = {}
    /\ pc = "idle"
    /\ sent = << >>
    /\ page = << >>
    /\ runs = 0

\* lines 175-178 and 185-186: one (u, v) sample through wind_speed_direction,
\* its direction through deg_to_compass
WindSample ==
    /\ ret = << >>
    /\ LET sd == wind_speed_direction(call.u, call.v)
       IN  ret' = Some([speed |-> sd[1], direction |-> sd[2],
                        compass_label |-> deg_to_compass(sd[2])])
    /\ UNCHANGED <<call, appVars>>

InitWind ==
    /\ AppIdle
    /\ call \in {[u |-> a * 1000, v |-> b * 1000] : a, b \in -MaxWind..MaxWind}
    /\ ret = << >>

SpecWind == InitWind /\ [][WindSample]_vars

\* line 186: deg_to_compass on every direction (mod 360) yields [0, 360)
CompassCall ==
    /\ ret = << >>
    /\ ret' = Some([ix |-> compass_ix(call.deg), label |-> deg_to_compass(call.deg)])
    /\ UNCHANGED <<call, appVars>>

InitCompass ==
    /\ AppIdle
    /\ call \in {[deg |-> d] : d \in 0..(FullTurn - 1)}
    /\ ret = << >>

SpecCompass == InitCompass /\ [][CompassCall]_vars

\* lines 134 and 157: the two list comprehensions
MaxConvLen == 3
ConvSamples == {0, 1, 250, Kelvin0C, 300000}
RawValues == {None} \cup {Some(x) : x \in ConvSamples}
RawSeries == UNION {[1..n -> RawValues] : n \in 0..MaxConvLen}

ConvertTemperature ==
    /\ ret = << >>
    /\ ret' = Some([variable |-> "2m_temperature", out |-> temps_c(call.raw)])
    /\ UNCHANGED <<call, appVars>>

ConvertPrecipitation ==
    /\ ret = << >>
    /\ ret' = Some([variable |-> "total_precipitation", out |-> vals_mm(call.raw)])
    /\ UNCHANGED <<call, appVars>>

InitConv ==
    /\ AppIdle
    /\ call \in {[raw |-> s] : s \in RawSeries}
    /\ ret = << >>

NextConv == ConvertTemperature \/ ConvertPrecipitation

SpecConv == InitConv /\ [][NextConv]_vars

\* ---------------------------------------------------------------- dashboard
Keys == {"", "zeus-key"}                 \* text typed into the key input
ForecastTabs == {"tab1", "tab2", "tab3", "tab4"}
Finished == {"stopped", "crashed", "done"}

HttpOk == 200
FailStatuses == {500}
ErrorText == "denied"                    \* r.text of a failed call

u_var == "100m_u_component_of_wind"
v_var == "100m_v_component_of_wind"

\* the tab whose block requests a variable
TabOf(variable) ==
    CASE variable = "2m_temperature" -> "tab1"
      [] variable = "relative_humidity_2m" -> "tab2"
      [] variable = "total_precipitation" -> "tab3"
      [] OTHER -> "tab4"

\* a non-null sample of each variable, in thousandths
SampleValue(variable) ==
    CASE variable = "2m_temperature" -> 280150
      [] variable = "relative_humidity_2m" -> 65000
      [] variable = "total_precipitation" -> 2
      [] variable = u_var -> 3000
      [] OTHER -> 4000

\* an element st.* puts on the page
Elem(container, kind, code, text) ==
    [container |-> container, kind |-> kind, code |-> code, text |-> text]

Request(endpoint, key, hourly) ==
    [endpoint |-> endpoint, key |-> key, hourly |-> hourly]

Response(status_code, text, json) ==
    [status_code |-> status_code, text |-> text, json |-> json]

\* a forecast answer with status 200 whose time series or value series is
\* empty or missing
NoSeries(variable, r) ==
    /\ r.status_code = HttpOk
    /\ \/ "hourly" \notin DOMAIN r.json
       \/ Get(r.json["hourly"], "time", << >>) = << >>
       \/ Get(r.json["hourly"], variable, << >>) = << >>

\* A request and what came back, as kept in sent.  The usage answer is kept
\* whole; of a forecast answer only the status and NoSeries are kept.
UsageExchange(req, r) ==
    [endpoint |-> req.endpoint, key |-> req.key, hourly |-> req.hourly,
     status |-> r.status_code, json |-> r.json, no_series |-> FALSE]

ForecastExchanges(reqs, r) ==
    [i \in DOMAIN reqs |->
        [endpoint |-> reqs[i].endpoint, key |-> reqs[i].key, hourly |-> reqs[i].hourly,
         status |-> r.status_code, json |-> << >>,
         no_series |-> NoSeries(reqs[i].hourly, r)]]

\* --- what the forecast endpoint may answer
TimeSeries == {[i \in 1..n |-> i] : n \in 0..MaxLen}
ValueSeries(variable) ==
    UNION {[1..n -> {None, Some(SampleValue(variable))}] : n \in 0..MaxLen}

Hourlies(variable) ==
    {<< >>}
    \cup {"time" :> t : t \in TimeSeries}
    \cup {variable :> s : s \in ValueSeries(variable)}
    \cup {("time" :> t) @@ (variable :> s) : t \in TimeSeries, s \in ValueSeries(variable)}

ForecastBodies(variable) ==
    {<< >>, "detail" :> << >>} \cup {"hourly" :> h : h \in Hourlies(variable)}

ForecastResponses(variable) ==
    {Response(HttpOk, "", b) : b \in ForecastBodies(variable)}
    \cup {Response(c, ErrorText, << >>) : c \in FailStatuses}

TemperatureResponses == ForecastResponses("2m_temperature")
HumidityResponses == ForecastResponses("relative_humidity_2m")
PrecipitationResponses == ForecastResponses("total_precipitation")
WindUResponses == ForecastResponses(u_var)
WindVResponses == ForecastResponses(v_var)

\* --- what the usage endpoint may answer
UsageKeys == {"credits_used", "credits_remaining", "credits_limit", "resets_at"}
IsoReset == "2030-01-01T00:00:00Z"
ResetValues == {IsoReset, "tomorrow"}        \* well-formed, malformed

UsageFull(reset) ==
    [k \in UsageKeys |->
        CASE k = "credits_used" -> "30"
          [] k = "credits_remaining" -> "70"
          [] k = "credits_limit" -> "100"
          [] OTHER -> reset]

UsageBodies ==
    {[k \in S |-> UsageFull(reset)[k]] : S \in SUBSET UsageKeys, reset \in ResetValues}

UsageResponses ==
    {Response(HttpOk, "", b) : b \in UsageBodies}
    \cup {Response(c, ErrorText, << >>) : c \in FailStatuses}

\* datetime.fromisoformat(s) accepts s
IsIso(s) == s \in {"2030-01-01T00:00:00"}

\* str.replace("Z", "")
StripZ(s) == IF s = IsoReset THEN "2030-01-01T00:00:00" ELSE s

\* .astimezone().strftime("%d-%b %H:%M %Z") on a machine whose zone is UTC
ResetStr(s) == IF s = "2030-01-01T00:00:00" THEN "01-Jan 00:00 UTC" ELSE s

\* datetime.fromisoformat(t).astimezone().strftime("%d-%b %H:%M") of the
\* i-th hour of the window
LocalTime(i) == <<"local", i>>

\* --- fetch_forecast (lines 14-30): one GET, the decoded body or None
fetch_forecast_Retry(container, key, variable, r) ==
    IF r.status_code = HttpOk
    THEN [req |-> <<Request("forecast", key, variable)>>, out |-> << >>, data |-> Some(r.json)]
    ELSE [req  |-> <<Request("forecast", key, variable), Request("forecast", key, variable)>>,
          out  |-> <<Elem(container, "error", r.status_code, <<r.text>>)>>,
          data |-> None]

fetch_forecast(container, key, variable, r) ==
    IF r.status_code = HttpOk
    THEN [req |-> <<Request("forecast", key, variable)>>, out |-> << >>, data |-> Some(r.json)]
    ELSE [req  |-> <<Request("forecast", key, variable)>>,
          out  |-> <<Elem(container, "error", r.status_code, <<r.text>>)>>,
          data |-> None]

\* `if data:` -- None and the empty dict are both false
Truthy(data) == ~IsNone(data) /\ TruthyDict(Val(data))

\* --- plot_time_series (lines 44-59)
\* ax.plot raises ValueError when x and y differ in length
plot_time_series(container, times, values) ==
    IF times = << >> \/ values = << >>
    THEN [out |-> <<Elem(container, "warning", 0, <<"No data available to plot.">>)>>,
          raised |-> "", local_times |-> << >>, vals |-> << >>]
    ELSE IF Len(times) # Len(values)
    THEN [out |-> << >>, raised |-> "ValueError", local_times |-> << >>, vals |-> << >>]
    ELSE [out |-> <<Elem(container, "pyplot", 0, <<"series">>)>>,
          raised |-> "",
          local_times |-> [i \in 1..Len(times) |-> LocalTime(times[i])],
          vals |-> values]

Last(s) == s[Len(s)]

\* the outcome of a block: the elements it rendered and the exception that
\* ended it ("" when it ran to its end)
Outcome(out, raised) == [out |-> out, raised |-> raised]

\* the list comprehension of the block that plots a variable: tab1 converts to
\* deg C (line 134), tab3 to mm (line 157), tab2 plots the raw series (line 146)
Converted(variable, raw) ==
    CASE variable = "2m_temperature" -> temps_c(raw)
      [] variable = "total_precipitation" -> vals_mm(raw)
      [] OTHER -> raw

\* --- the blocks of tab1, tab2, tab3 after the fetch (lines 131-138, 143-149,
\* 154-161)
Section(container, variable, data, note) ==
    IF ~Truthy(data) THEN Outcome(<< >>, "")
    ELSE IF "hourly" \notin DOMAIN Val(data) THEN Outcome(<< >>, "KeyError")
    ELSE LET hourly == Val(data)["hourly"]
             times == Get(hourly, "time", << >>)
             raw == Get(hourly, variable, << >>)
             plot == plot_time_series(container, times, Converted(variable, raw))
             info == <<Elem(container, "info", 0, <<note>>)>>
         IN  IF plot.raised # "" THEN Outcome(plot.out, plot.raised)
             ELSE IF plot.vals = << >> THEN Outcome(plot.out \o info, "")
             ELSE IF IsNone(Last(plot.vals))
                  THEN Outcome(plot.out \o info, "TypeError")
                  ELSE Outcome(plot.out \o info
                               \o <<Elem(container, "success", 0, <<"Latest Forecast">>)>>, "")

\* zip(u_vals, v_vals) through wind_speed_direction: None ** 2 raises TypeError
ZipLen(u_vals, v_vals) == Min(Len(u_vals), Len(v_vals))
ZipRaises(u_vals, v_vals) ==
    \E i \in 1..ZipLen(u_vals, v_vals) : IsNone(u_vals[i]) \/ IsNone(v_vals[i])
Zipped(u_vals, v_vals) ==
    [i \in 1..ZipLen(u_vals, v_vals) |->
        wind_speed_direction(Val(u_vals[i]), Val(v_vals[i]))]

\* --- the block of tab4 after the two fetches (lines 169-194)
WindSection(container, u, v) ==
    IF ~(Truthy(u) /\ Truthy(v)) THEN Outcome(<< >>, "")
    ELSE IF "hourly" \notin DOMAIN Val(u) THEN Outcome(<< >>, "KeyError")
    ELSE IF "hourly" \notin DOMAIN Val(v) THEN Outcome(<< >>, "KeyError")
    ELSE LET times == Get(Val(u)["hourly"], "time", << >>)
             u_vals == Get(Val(u)["hourly"], u_var, << >>)
             v_vals == Get(Val(v)["hourly"], v_var, << >>)
         IN  IF ZipRaises(u_vals, v_vals) THEN Outcome(<< >>, "TypeError")
             ELSE LET zipped == Zipped(u_vals, v_vals)
                      speeds == [i \in DOMAIN zipped |-> Some(zipped[i][1])]
                      wdirs == [i \in DOMAIN zipped |-> zipped[i][2]]
                      plot == plot_time_series(container, times, speeds)
                      info == <<Elem(container, "info", 0, <<"100 m AGL">>)>>
                  IN  IF plot.raised # "" THEN Outcome(plot.out, plot.raised)
                      ELSE IF plot.vals = << >> \/ wdirs = << >>
                           THEN Outcome(plot.out \o info, "")
                           ELSE LET last_dir == Last(wdirs)
                                IN  Outcome(plot.out \o info
                                      \o <<Elem(container, "pyplot", last_dir,
                                                <<deg_to_compass(last_dir)>>),
                                           Elem(container, "success", last_dir,
                                                <<"Latest Forecast">>)>>, "")

\* --- the usage check of tab0 (lines 100-124)
UsageSection_Index(container, r) ==
    IF r.status_code # HttpOk
    THEN Outcome(<<Elem(container, "warning", r.status_code,
                        <<"Could not fetch API usage">>)>>, "")
    ELSE IF {"credits_remaining", "credits_limit", "credits_used"} \ DOMAIN r.json # {}
    THEN Outcome(<< >>, "KeyError")
    ELSE LET usage == r.json
             resets_at == Get(usage, "resets_at", "")
         IN  IF resets_at # "" /\ ~IsIso(StripZ(resets_at))
             THEN Outcome(<< >>, "ValueError")
             ELSE LET reset_str == IF resets_at # "" THEN ResetStr(StripZ(resets_at))
                                   ELSE "Unknown"
                  IN  Outcome(<<Elem(container, "success", 0,
                                     <<usage["credits_used"], usage["credits_remaining"],
                                       usage["credits_limit"], reset_str>>)>>, "")

\* resets_at defaults to None; None and "" are both false in `if resets_at:`
UsageSection(container, r) ==
    IF r.status_code # HttpOk
    THEN Outcome(<<Elem(container, "warning", r.status_code,
                        <<"Could not fetch API usage">>)>>, "")
    ELSE LET usage == r.json
             remaining == Get(usage, "credits_remaining", "N/A")
             limit == Get(usage, "credits_limit", "N/A")
             used == Get(usage, "credits_used", "N/A")
             resets_at == Get(usage, "resets_at", "")
         IN  IF resets_at # "" /\ ~IsIso(StripZ(resets_at))
             THEN Outcome(<< >>, "ValueError")
             ELSE LET reset_str == IF resets_at # "" THEN ResetStr(StripZ(resets_at))
                                   ELSE "Unknown"
                  IN  Outcome(<<Elem(container, "success", 0,
                                     <<used, remaining, limit, reset_str>>)>>, "")

\* ------------------------------------------------------------------ actions
\* what a block leaves behind: its elements, then either the next block or the
\* exception box of an uncaught exception, which ends the script run
Rendered(container, out, raised) ==
    page \o out \o (IF raised = "" THEN << >>
                    ELSE <<Elem(container, "exception", 0, <<raised>>)>>)
After(raised, next) == IF raised = "" THEN next ELSE "crashed"

Subheader(container) == <<Elem(container, "subheader", 0, <<"heading">>)>>

\* lines 62-86: title, API-key guard, sidebar widgets, st.tabs
ApiKeyGuard_NoStop ==
    /\ pc = "guard"
    /\ page' = <<Elem("main", "title", 0, <<"Zeus Forecast Dashboard">>)>>
               \o (IF api_key = ""
                   THEN <<Elem("main", "warning", 0, <<"Please enter your API key">>)>>
                   ELSE << >>)
               \o <<Elem("main", "tabs", 0, <<"Overview">>)>>
    /\ pc' = "tab0"
    /\ UNCHANGED <<api_key, shown, sent, runs, unitVars>>

ApiKeyGuard ==
    /\ pc = "guard"
    /\ IF api_key = ""
       THEN /\ page' = <<Elem("main", "title", 0, <<"Zeus Forecast Dashboard">>),
                         Elem("main", "warning", 0, <<"Please enter your API key">>)>>
            /\ pc' = "stopped"
       ELSE /\ page' = <<Elem("main", "title", 0, <<"Zeus Forecast Dashboard">>),
                         Elem("main", "tabs", 0, <<"Overview">>)>>
            /\ pc' = "tab0"
    /\ UNCHANGED <<api_key, shown, sent, runs, unitVars>>

\* lines 88-126
Tab0 ==
    /\ pc = "tab0"
    /\ IF api_key # ""
       THEN \E r \in UsageResponses :
              LET s == UsageSection("tab0", r)
              IN  /\ sent' = sent \o <<UsageExchange(Request("usage", api_key, ""), r)>>
                  /\ page' = Rendered("tab0", Subheader("tab0") \o s.out, s.raised)
                  /\ pc' = After(s.raised, "tab1")
       ELSE /\ sent' = sent
            /\ page' = Rendered("tab0", Subheader("tab0")
                          \o <<Elem("tab0", "info", 0, <<"Enter your API key">>)>>, "")
            /\ pc' = "tab1"
    /\ UNCHANGED <<api_key, shown, runs, unitVars>>

\* lines 128-138
Tab1 ==
    /\ pc = "tab1"
    /\ \E r \in TemperatureResponses :
         LET f == fetch_forecast("tab1", api_key, "2m_temperature", r)
             s == Section("tab1", "2m_temperature", f.data, "2 m AGL, deg C")
         IN  /\ sent' = sent \o ForecastExchanges(f.req, r)
             /\ page' = Rendered("tab1", Subheader("tab1") \o f.out \o s.out, s.raised)
             /\ pc' = After(s.raised, "tab2")
    /\ UNCHANGED <<api_key, shown, runs, unitVars>>

\* lines 140-149
Tab2 ==
    /\ pc = "tab2"
    /\ \E r \in HumidityResponses :
         LET f == fetch_forecast("tab2", api_key, "relative_humidity_2m", r)
             s == Section("tab2", "relative_humidity_2m", f.data, "2 m AGL, %")
         IN  /\ sent' = sent \o ForecastExchanges(f.req, r)
             /\ page' = Rendered("tab2", Subheader("tab2") \o f.out \o s.out, s.raised)
             /\ pc' = After(s.raised, "tab3")
    /\ UNCHANGED <<api_key, shown, runs, unitVars>>

\* lines 151-161
Tab3 ==
    /\ pc = "tab3"
    /\ \E r \in PrecipitationResponses :
         LET f == fetch_forecast("tab3", api_key, "total_precipitation", r)
             s == Section("tab3", "total_precipitation", f.data, "mm")
         IN  /\ sent' = sent \o ForecastExchanges(f.req, r)
             /\ page' = Rendered("tab3", Subheader("tab3") \o f.out \o s.out, s.raised)
             /\ pc' = After(s.raised, "tab4")
    /\ UNCHANGED <<api_key, shown, runs, unitVars>>

\* lines 163-194
Tab4 ==
    /\ pc = "tab4"
    /\ \E ru \in WindUResponses, rv \in WindVResponses :
         LET u == fetch_forecast("tab4", api_key, u_var, ru)
             v == fetch_forecast("tab4", api_key, v_var, rv)
             s == WindSection("tab4", u.data, v.data)
         IN  /\ sent' = sent \o ForecastExchanges(u.req, ru) \o ForecastExchanges(v.req, rv)
             /\ page' = Rendered("tab4", Subheader("tab4") \o u.out \o v.out \o s.out,
                                 s.raised)
             /\ pc' = After(s.raised, "done")
    /\ UNCHANGED <<api_key, shown, runs, unitVars>>

\* the user edits the key input (line 65): the script is run again from the top
SetApiKey(k) ==
    /\ pc \in Finished
    /\ runs < MaxRuns
    /\ k # api_key
    /\ api_key' = k
    /\ pc' = "guard"
    /\ sent' = << >>
    /\ page' = << >>
    /\ runs' = runs + 1
    /\ UNCHANGED <<shown, unitVars>>

\* the user clicks a forecast tab of the rendered st.tabs (line 84): the browser
\* switches panes, the script is not run
SelectTab(t) ==
    /\ pc \in {"crashed", "done"}
    /\ t \notin shown
    /\ shown' = shown \cup {t}
    /\ UNCHANGED <<api_key, pc, sent, page, runs, unitVars>>

Init ==
    /\ api_key = ""
    /\ shown = {}
    /\ pc = "guard"
    /\ sent = << >>
    /\ page = << >>
    /\ runs = 1
    /\ call = << >>
    /\ ret = << >>

Next ==
    \/ ApiKeyGuard
    \/ Tab0
    \/ Tab1
    \/ Tab2
    \/ Tab3
    \/ Tab4
    \/ \E k \in Keys : SetApiKey(k)
    \/ \E t \in ForecastTabs : SelectTab(t)

Spec == Init /\ [][Next]_vars

\* ------------------------------------------------------------------- claims
\* positions of the page elements of one kind inside one container
ElemsIn(container, kind) ==
    {i \in DOMAIN page : page[i].container = container /\ page[i].kind = kind}

\* positions in sent of the forecast requests made by the block of a tab
Calls(container) ==
    {i \in DOMAIN sent : sent[i].endpoint = "forecast" /\ TabOf(sent[i].hourly) = container}

FailedCalls(container) == {i \in Calls(container) : sent[i].status # HttpOk}

IsFailedCallOf(container, x) ==
    x.endpoint = "forecast" /\ TabOf(x.hourly) = container /\ x.status # HttpOk

IsErrorIn(container, e) == e.container = container /\ e.kind = "error"

Codes(elems) == [i \in DOMAIN elems |-> elems[i].code]
Statuses(xs) == [i \in DOMAIN xs |-> xs[i].status]

\* C1 (as claimed): no exception propagates out of the block of a forecast tab,
\* whatever the HTTP outcome (nulls in the series, a missing 'hourly', 'time'
\* or variable entry included), so no exception box appears in a forecast tab
\* and the run goes on to the remaining tabs.
C1_NoExceptionInForecastTab ==
    \A i \in DOMAIN page :
        page[i].kind = "exception" => page[i].container \notin ForecastTabs

\* C2 (as claimed): a forecast request for a variable is sent only after the
\* user has opened that variable's tab; while only the Overview tab has been
\* shown, the usage request is the only request of the run.
C2_NoForecastUntilTabOpened ==
    \A i \in DOMAIN sent :
        sent[i].endpoint = "forecast" => TabOf(sent[i].hourly) \in shown

\* C3: a fetch_forecast call answered with a status other than 200 sends one
\* request (no variable is requested twice in a run), shows one error message
\* carrying that status code and the body text, returns no data, and its
\* section shows nothing but the heading and the error messages: no chart, no
\* 'Latest Forecast' line.
C3_FailedFetchIsReportedOnceAndSkipped ==
    /\ \A i, j \in DOMAIN sent :
         (sent[i].endpoint = "forecast" /\ sent[j].endpoint = "forecast"
            /\ sent[i].hourly = sent[j].hourly) => i = j
    /\ \A c \in ForecastTabs :
         /\ Codes(SelectSeq(page, LAMBDA e : IsErrorIn(c, e)))
              = Statuses(SelectSeq(sent, LAMBDA x : IsFailedCallOf(c, x)))
         /\ \A i \in ElemsIn(c, "error") : page[i].text = <<ErrorText>>
         /\ FailedCalls(c) # {} =>
              \A i \in DOMAIN page :
                  page[i].container = c => page[i].kind \in {"subheader", "error"}

C3_Witness ==
    /\ pc = "done"
    /\ Cardinality(FailedCalls("tab1")) = 1
    /\ Cardinality(FailedCalls("tab4")) = 1
    /\ Cardinality(Calls("tab4")) = 2
    /\ Cardinality(ElemsIn("tab4", "error")) = 1
    /\ ElemsIn("tab2", "pyplot") # {}

\* C8 (as claimed): a forecast request answered 200 whose time series or value
\* series is empty or missing (the empty body included) makes its section show
\* the 'no data' notice, no chart and no 'Latest Forecast' line.
C8_NoSeriesShowsNotice ==
    \A c \in ForecastTabs :
        (\E i \in Calls(c) : sent[i].status = HttpOk /\ sent[i].no_series) =>
            /\ ElemsIn(c, "warning") # {}
            /\ ElemsIn(c, "pyplot") = {}
            /\ ElemsIn(c, "success") = {}

\* what the usage summary shows for a field of the answer
ShownField(usage, key) == IF key \in DOMAIN usage THEN usage[key] ELSE "N/A"
ShownReset(usage) ==
    IF "resets_at" \in DOMAIN usage THEN ResetStr(StripZ(usage["resets_at"])) ELSE "Unknown"

\* C9: a usage answer with status 200 in which any of credits_used,
\* credits_remaining, credits_limit, resets_at is absent (the fields present
\* being well formed) still gets its summary, each absent field shown by its
\* placeholder; an answer with another status gets a warning carrying the
\* status code; in both cases the Overview block raises nothing, so the run
\* goes on to the forecast tabs.
C9_UsageToleratesMissingFields ==
    \A i \in DOMAIN sent :
        sent[i].endpoint = "usage" =>
            IF sent[i].status # HttpOk
            THEN /\ \E j \in ElemsIn("tab0", "warning") : page[j].code = sent[i].status
                 /\ ElemsIn("tab0", "success") = {}
                 /\ ElemsIn("tab0", "exception") = {}
                 /\ pc \notin {"tab0", "stopped"}
            ELSE ("resets_at" \in DOMAIN sent[i].json => IsIso(StripZ(sent[i].json["resets_at"])))
                 => /\ \E j \in ElemsIn("tab0", "success") :
                         page[j].text = <<ShownField(sent[i].json, "credits_used"),
                                          ShownField(sent[i].json, "credits_remaining"),
                                          ShownField(sent[i].json, "credits_limit"),
                                          ShownReset(sent[i].json)>>
                    /\ ElemsIn("tab0", "exception") = {}
                    /\ pc \notin {"tab0", "stopped"}

C9_Witness ==
    /\ pc = "done"
    /\ \E i \in DOMAIN sent :
         /\ sent[i].endpoint = "usage"
         /\ sent[i].status = HttpOk
         /\ DOMAIN sent[i].json = {"credits_limit"}
    /\ \E j \in ElemsIn("tab0", "success") : page[j].text = <<"N/A", "N/A", "100", "Unknown">>

\* C10: in a run whose API key is empty no HTTP request is sent and no tab is
\* rendered: the run shows the 'enter your API key' warning and stops at the
\* guard.
C10_EmptyKeyStopsAtGuard ==
    api_key = "" =>
        /\ pc \in {"guard", "stopped"}
        /\ sent = << >>
        /\ \A i \in DOMAIN page : page[i].container = "main" /\ page[i].kind # "tabs"
        /\ pc = "stopped" => \E i \in DOMAIN page : page[i].kind = "warning"

C10_Witness ==
    /\ api_key = ""
    /\ pc = "stopped"
    /\ Len(page) = 2
    /\ page[2].kind = "warning"

\* the outcome of the call under test
Result == Val(ret)

\* C4 (as claimed): u=0, v=1 gives direction 0 (North) and u=1, v=0 gives
\* direction 90 (East).
C4_Original ==
    ret # << >> =>
        /\ (call.u = 0 /\ call.v = 1000) =>
              (Result.direction = 0 /\ Result.compass_label = "N")
        /\ (call.u = 1000 /\ call.v = 0) =>
              (Result.direction = HalfTurn \div 2 /\ Result.compass_label = "E")

\* C4 (amended): the direction is the one the wind blows from (0 = North,
\* clockwise): a northward wind (u=0, v>0) gives 180 (South), an eastward wind
\* (u>0, v=0) gives 270 (West), a southward wind (u=0, v<0) gives 0 (North) and
\* a westward wind (u<0, v=0) gives 90 (East).
C4_DirectionIsWhereWindComesFrom ==
    ret # << >> =>
        /\ (call.u = 0 /\ call.v > 0) =>
              (Result.direction = HalfTurn /\ Result.compass_label = "S")
        /\ (call.u > 0 /\ call.v = 0) =>
              (Result.direction = HalfTurn + HalfTurn \div 2 /\ Result.compass_label = "W")
        /\ (call.u = 0 /\ call.v < 0) =>
              (Result.direction = 0 /\ Result.compass_label = "N")
        /\ (call.u < 0 /\ call.v = 0) =>
              (Result.direction = HalfTurn \div 2 /\ Result.compass_label = "E")

C4_Witness ==
    /\ ret # << >>
    /\ call.u = 0
    /\ call.v = 1000
    /\ Result.compass_label = "S"

\* within tol of each other
Near(a, b, tol) == Abs(a - b) <= tol

\* C5 (as claimed): wind_speed_direction(3, 4) is about 8.66 kt and about
\* 323.13 degrees.
C5_Original ==
    (ret # << >> /\ call.u = 3000 /\ call.v = 4000) =>
        /\ Near(Result.speed, 8660, 5)
        /\ Near(Result.direction, 32313, 1)

\* C5 (amended): wind_speed_direction(3, 4) is about 9.72 kt (5 m/s times
\* 1.94384) and about 216.87 degrees (atan2(3, 4) in degrees plus 180).
C5_Wind34 ==
    (ret # << >> /\ call.u = 3000 /\ call.v = 4000) =>
        /\ Near(Result.speed, 9719, 5)
        /\ Near(Result.direction, 21687, 1)

C5_Witness ==
    /\ ret # << >>
    /\ call.u = 3000
    /\ call.v = 4000
    /\ Result.compass_label = "SW"

\* distance of two directions around the circle
CircDist(a, b) == Min(Abs(a - b), FullTurn - Abs(a - b))

\* C6: for every d in [0, 360) deg_to_compass(d) is the label of an index in
\* 0..15 of the fixed list whose centre, index times 22.5, is within 11.25
\* degrees of d around the circle; 0 gives N, 90 gives E, 359 gives N.
C6_NearestCompassPoint ==
    ret # << >> =>
        /\ Result.ix \in 0..(NumDirs - 1)
        /\ Result.label = dirs[Result.ix + 1]
        /\ 2 * CircDist(call.deg, Result.ix * Sector) <= Sector
        /\ call.deg = 0 => Result.label = "N"
        /\ call.deg = HalfTurn \div 2 => Result.label = "E"
        /\ call.deg = FullTurn - 100 => Result.label = "N"

C6_Witness ==
    /\ ret # << >>
    /\ call.deg = FullTurn - 100
    /\ Result.ix = 0
    /\ Result.label = "N"

\* C7: both conversions keep the length and the positions of the nulls; a
\* non-null temperature becomes itself minus 273.15 (273.15 gives 0.0), a
\* non-null precipitation becomes itself times 1000 (0.001 m gives 1.0 mm).
C7_NullPreservingMaps ==
    ret # << >> =>
        /\ Len(Result.out) = Len(call.raw)
        /\ \A i \in DOMAIN call.raw :
             /\ IsNone(Result.out[i]) <=> IsNone(call.raw[i])
             /\ ~IsNone(call.raw[i]) =>
                  IF Result.variable = "2m_temperature"
                  THEN /\ ~IsNone(Result.out[i])
                       /\ Val(Result.out[i]) + Kelvin0C = Val(call.raw[i])
                       /\ Val(call.raw[i]) = Kelvin0C => Val(Result.out[i]) = 0
                  ELSE /\ ~IsNone(Result.out[i])
                       /\ Val(Result.out[i]) = MToMm * Val(call.raw[i])
                       /\ Val(call.raw[i]) = 1 => Val(Result.out[i]) = 1000

C7_Witness ==
    /\ ret # << >>
    /\ Result.variable = "2m_temperature"
    /\ call.raw = <<None, Some(Kelvin0C), None>>
    /\ Result.out = <<None, Some(0), None>>

====
